---- MODULE Spec2Model ----
(***************************************************************************)
(* Model of the two operator scripts of the game-store database system:    *)
(*   scripts/load.py     the loader (create database, apply the six SQL    *)
(*                       scripts, verify object counts)                     *)
(*   scripts/explain.py  the analyzer (EXPLAIN ANALYZE over the fixed      *)
(*                       query list, catalog reports, optional benchmark)  *)
(* One run of one program is modelled: Init chooses the program and the    *)
(* state of the database server it runs against.  Program positions are    *)
(* the blocking calls of the code (connect, execute, input).  The database *)
(* server and the operator are the environment: the outcome of each call   *)
(* is drawn with \E, and an operator interrupt (Ctrl+C) can arrive at any  *)
(* position.  The run starts at the first blocking call of main.           *)
(***************************************************************************)
EXTENDS Integers, Sequences, FiniteSets, TLC

\* ------------------------------------------------------------------ bounds
MaxRespLen == 2      \* longest line the operator types at a y/N prompt
MaxTime == 2         \* largest duration of one benchmark execution (in microseconds)
MaxRejected == 1     \* how many queries of the list the database rejects on their own

\* --------------------------------------------------------- program constants
SQL_SCRIPTS ==
  <<"01_schema.sql", "02_seed.sql", "03_views.sql",
    "04_functions.sql", "05_triggers.sql", "06_indexes.sql">>

NumScripts == Len(SQL_SCRIPTS)

QUERIES_TO_ANALYZE ==
  <<"Game Catalog Lookup by Platform", "Inventory Check Across Stores",
    "Best Sellers Report", "Customer Lifetime Value",
    "Store Performance Comparison", "Low Stock Items Report">>

NumQueries == Len(QUERIES_TO_ANALYZE)

Iterations == 5

\* Exit status of the interpreter when KeyboardInterrupt reaches the top of the
\* stack: 1 with a traceback, or death by SIGINT (130) on newer interpreters.
UnhandledExitCodes == {1, 130}

\* ------------------------------------------------------------------- state
VARIABLES
  prog,          \* "loader" or "analyzer": the program of this run
  pc,            \* position of the program
  openConns,     \* connections opened by the program and not yet closed
  dbExists,      \* the target database exists on the server
  dbApplied,     \* per script: how many times its effects are in the database
  db0,           \* the database as it was when the run started
  response,      \* <<>> before a prompt; after it <<answer.strip().lower(), line typed>>
  adminCmds,     \* commands create_database issued on the admin connection
  executed,      \* run_sql_script calls so far: <<script index, outcome>>
  phase,         \* result of create_database, run_sql_scripts, verify_installation
  reportedCounts,\* the counts verify_installation printed: <<>> before, <<counts>> after
  out,           \* messages printed so far
  exitCode,      \* process exit status, -1 while running
  unhandled,     \* the run ended with an exception nobody caught
  rejected,      \* queries the database rejects whenever they are submitted
  statsValid,    \* whether the two catalog report statements are accepted
  txAborted,     \* the analyzer connection's transaction is in the aborted state
  analyzed,      \* analyze_query calls so far: <<query index, returned flag>>
  reports,       \* results of get_index_usage_stats and get_table_sizes
  benchQ,        \* query index of the current or last run_simple_benchmark call
  times,         \* run_simple_benchmark's list of samples
  benchStats,    \* the statistics it printed: <<>> or <<[sum, n, min, max]>>
  benchResult    \* "none", "running", or what the call returned: "ok", "fail"

vars == <<prog, pc, openConns, dbExists, dbApplied, db0, response, adminCmds,
          executed, phase, reportedCounts, out, exitCode, unhandled, rejected,
          statsValid, txAborted, analyzed, reports, benchQ, times, benchStats,
          benchResult>>

dbVars == <<dbExists, dbApplied>>
benchVars == <<benchQ, times, benchStats, benchResult>>
loaderVars == <<adminCmds, executed, phase, reportedCounts>>
analyzerVars == <<txAborted, analyzed, reports, benchQ, times, benchStats,
          benchResult>>
envVars == <<prog, db0, rejected, statsValid>>

\* ----------------------------------------------------------------- helpers
\* str.lower() on one character of the prompt alphabet
LowerChar(c) == IF c = "Y" THEN "y" ELSE IF c = "N" THEN "n" ELSE c

Lower(s) == [i \in 1..Len(s) |-> LowerChar(s[i])]

RECURSIVE LStrip(_)
LStrip(s) == IF s # <<>> /\ Head(s) = " " THEN LStrip(Tail(s)) ELSE s

RECURSIVE RStrip(_)
RStrip(s) ==
  IF s # <<>> /\ s[Len(s)] = " " THEN RStrip(SubSeq(s, 1, Len(s) - 1)) ELSE s

\* str.strip()
Strip(s) == LStrip(RStrip(s))

\* input(...).strip().lower()
Normalize(s) == Lower(Strip(s))

Chars == {"y", "Y", "n", "N", " "}

RawResponses == UNION {[1..n -> Chars] : n \in 0..MaxRespLen}

Yes == <<"y">>

NoneApplied == [s \in 1..NumScripts |-> 0]

PrefixApplied(k) == [s \in 1..NumScripts |-> IF s <= k THEN 1 ELSE 0]

RECURSIVE Sum(_)
Sum(s) == IF s = <<>> THEN 0 ELSE Head(s) + Sum(Tail(s))

RECURSIVE Min(_)
Min(s) ==
  IF Len(s) = 1 THEN s[1]
  ELSE LET m == Min(Tail(s)) IN IF s[1] <= m THEN s[1] ELSE m

RECURSIVE Max(_)
Max(s) ==
  IF Len(s) = 1 THEN s[1]
  ELSE LET m == Max(Tail(s)) IN IF s[1] >= m THEN s[1] ELSE m

\* sys.exit(code) after printing msg
Exit(code, msg) ==
  /\ pc' = "exited"
  /\ exitCode' = code
  /\ out' = out \cup msg
  /\ unhandled' = FALSE

\* -------------------------------------------------------------------- Init
Init ==
  /\ prog \in {"loader", "analyzer"}
  /\ pc = IF prog = "loader" THEN "l_start" ELSE "a_connect"
  /\ openConns = {}
  /\ dbExists \in BOOLEAN
  /\ dbApplied \in IF ~dbExists THEN {NoneApplied}
                   ELSE IF prog = "analyzer" THEN {PrefixApplied(NumScripts)}
                   ELSE {PrefixApplied(k) : k \in {0, 2, NumScripts}}
  /\ db0 = [exists |-> dbExists, applied |-> dbApplied]
  /\ response = <<>>
  /\ adminCmds = <<>>
  /\ executed = <<>>
  /\ phase = [create |-> "none", scripts |-> "none", verify |-> "none"]
  /\ reportedCounts = <<>>
  /\ out = {}
  /\ exitCode = -1
  /\ unhandled = FALSE
  /\ rejected \in IF prog = "loader" THEN {{}}
                  ELSE {r \in SUBSET (1..NumQueries) : Cardinality(r) <= MaxRejected}
  /\ statsValid \in IF prog = "loader" THEN {[index |-> TRUE, sizes |-> TRUE]}
                    ELSE [index : BOOLEAN, sizes : BOOLEAN]
  /\ txAborted = FALSE
  /\ analyzed = <<>>
  /\ reports = [index |-> "none", sizes |-> "none"]
  /\ benchQ = 0
  /\ times = <<>>
  /\ benchStats = <<>>
  /\ benchResult = "none"

\* ------------------------------------------------------------ loader: main
\* main, input() returns: the operator pressed Enter
LoaderStart ==
  /\ prog = "loader" /\ pc = "l_start"
  /\ pc' = "cd_connect"
  /\ UNCHANGED <<openConns, dbVars, response, loaderVars, out, exitCode,
                 unhandled, analyzerVars, envVars>>

\* KeyboardInterrupt in the loader: only the input() of main is inside a
\* try/except KeyboardInterrupt; create_database, run_sql_scripts (whose
\* run_sql_script catches Exception, not BaseException) and verify_installation
\* catch psycopg2.Error only, and main has no handler around them.
LoaderInterrupt ==
  /\ prog = "loader" /\ pc # "exited"
  /\ IF pc = "l_start"
     THEN Exit(0, {"Setup cancelled."})
     ELSE /\ pc' = "exited"
          /\ exitCode' \in UnhandledExitCodes
          /\ unhandled' = TRUE
          /\ out' = out
  /\ UNCHANGED <<openConns, dbVars, response, loaderVars, analyzerVars, envVars>>

\* ------------------------------------------------- loader: create_database
\* CreateFailed with main ignoring create_database's result
CreateFailed_Ignored ==
  /\ phase' = [phase EXCEPT !.create = "fail"]
  /\ pc' = "rs_dir"
  /\ out' = out \cup {"ERROR: Failed to create database"}
  /\ UNCHANGED <<openConns, dbVars, response, executed, reportedCounts,
                 exitCode, unhandled, analyzerVars, envVars>>

\* the except psycopg2.Error branch of create_database followed by main's exit:
\* the connection, if one was opened, is not closed on this path
CreateFailed ==
  /\ phase' = [phase EXCEPT !.create = "fail"]
  /\ Exit(1, {"ERROR: Failed to create database",
              "Setup failed at database creation step."})
  /\ UNCHANGED <<openConns, dbVars, response, executed, reportedCounts,
                 analyzerVars, envVars>>

\* psycopg2.connect to the default database 'postgres'
CdConnect ==
  /\ prog = "loader" /\ pc = "cd_connect"
  /\ \E ok \in BOOLEAN :
       IF ok
       THEN /\ openConns' = openConns \cup {"admin"}
            /\ pc' = "cd_check"
            /\ UNCHANGED <<dbVars, response, loaderVars, out, exitCode,
                           unhandled, analyzerVars, envVars>>
       ELSE CreateFailed /\ UNCHANGED adminCmds

\* CdCheckExists with the test on cursor.fetchone() inverted
CdCheckExists_Inverted ==
  /\ prog = "loader" /\ pc = "cd_check"
  /\ adminCmds' = Append(adminCmds, "select")
  /\ \E ok \in BOOLEAN :
       IF ok
       THEN /\ pc' = IF ~dbExists THEN "cd_prompt" ELSE "cd_create"
            /\ out' = IF ~dbExists THEN out \cup {"Database already exists."} ELSE out
            /\ UNCHANGED <<openConns, dbVars, response, executed, phase,
                           reportedCounts, exitCode, unhandled, analyzerVars,
                           envVars>>
       ELSE CreateFailed

\* SELECT 1 FROM pg_database WHERE datname = ... ; cursor.fetchone()
CdCheckExists ==
  /\ prog = "loader" /\ pc = "cd_check"
  /\ adminCmds' = Append(adminCmds, "select")
  /\ \E ok \in BOOLEAN :
       IF ok
       THEN /\ pc' = IF dbExists THEN "cd_prompt" ELSE "cd_create"
            /\ out' = IF dbExists THEN out \cup {"Database already exists."} ELSE out
            /\ UNCHANGED <<openConns, dbVars, response, executed, phase,
                           reportedCounts, exitCode, unhandled, analyzerVars,
                           envVars>>
       ELSE CreateFailed

\* CdPrompt with the test inverted to "anything but n drops"
CdPrompt_AnyButNo ==
  /\ prog = "loader" /\ pc = "cd_prompt"
  /\ \E raw \in RawResponses :
       /\ response' = <<Normalize(raw), raw>>
       /\ IF Normalize(raw) # <<"n">>
          THEN pc' = "cd_terminate" /\ out' = out
          ELSE pc' = "cd_close" /\ out' = out \cup {"Using existing database."}
  /\ UNCHANGED <<openConns, dbVars, loaderVars, exitCode, unhandled,
                 analyzerVars, envVars>>

\* response = input("Drop and recreate? (y/N): ").strip().lower()
\* if response == 'y': ... else: print("Using existing database.")
CdPrompt ==
  /\ prog = "loader" /\ pc = "cd_prompt"
  /\ \E raw \in RawResponses :
       /\ response' = <<Normalize(raw), raw>>
       /\ IF Normalize(raw) = Yes
          THEN pc' = "cd_terminate" /\ out' = out
          ELSE pc' = "cd_close" /\ out' = out \cup {"Using existing database."}
  /\ UNCHANGED <<openConns, dbVars, loaderVars, exitCode, unhandled,
                 analyzerVars, envVars>>

\* SELECT pg_terminate_backend(...) for the other sessions of the target
CdTerminate ==
  /\ prog = "loader" /\ pc = "cd_terminate"
  /\ adminCmds' = Append(adminCmds, "terminate")
  /\ \E ok \in BOOLEAN :
       IF ok
       THEN /\ pc' = "cd_drop"
            /\ UNCHANGED <<openConns, dbVars, response, executed, phase,
                           reportedCounts, out, exitCode, unhandled,
                           analyzerVars, envVars>>
       ELSE CreateFailed

\* DROP DATABASE
CdDrop ==
  /\ prog = "loader" /\ pc = "cd_drop"
  /\ adminCmds' = Append(adminCmds, "drop")
  /\ \E ok \in BOOLEAN :
       IF ok
       THEN /\ dbExists' = FALSE
            /\ dbApplied' = NoneApplied
            /\ pc' = "cd_create"
            /\ out' = out \cup {"Dropped existing database"}
            /\ UNCHANGED <<openConns, response, executed, phase, reportedCounts,
                           exitCode, unhandled, analyzerVars, envVars>>
       ELSE CreateFailed

\* CREATE DATABASE (after the drop, or when the database was absent)
CdCreate ==
  /\ prog = "loader" /\ pc = "cd_create"
  /\ adminCmds' = Append(adminCmds, "create")
  /\ \E ok \in BOOLEAN :
       IF ok
       THEN /\ dbExists' = TRUE
            /\ dbApplied' = NoneApplied
            /\ pc' = "cd_close"
            /\ out' = out \cup {"Created database"}
            /\ UNCHANGED <<openConns, response, executed, phase, reportedCounts,
                           exitCode, unhandled, analyzerVars, envVars>>
       ELSE CreateFailed

\* CdClose without the conn.close()
CdClose_NoClose ==
  /\ prog = "loader" /\ pc = "cd_close"
  /\ phase' = [phase EXCEPT !.create = "ok"]
  /\ pc' = "rs_dir"
  /\ UNCHANGED <<openConns, dbVars, response, adminCmds, executed,
                 reportedCounts, out, exitCode, unhandled, analyzerVars, envVars>>

\* cursor.close(); conn.close(); return True, and main goes on to step 2
CdClose ==
  /\ prog = "loader" /\ pc = "cd_close"
  /\ openConns' = openConns \ {"admin"}
  /\ phase' = [phase EXCEPT !.create = "ok"]
  /\ pc' = "rs_dir"
  /\ UNCHANGED <<dbVars, response, adminCmds, executed, reportedCounts, out,
                 exitCode, unhandled, analyzerVars, envVars>>

\* ------------------------------------------------- loader: run_sql_scripts
\* run_sql_scripts returns False and main exits with 1
ScriptsFailed(msg) ==
  /\ phase' = [phase EXCEPT !.scripts = "fail"]
  /\ Exit(1, {msg, "Setup failed at script execution step."})

\* if not os.path.exists(sql_dir): return False
RsDirCheck ==
  /\ prog = "loader" /\ pc = "rs_dir"
  /\ \E found \in BOOLEAN :
       IF found
       THEN /\ pc' = "rs_connect"
            /\ UNCHANGED <<phase, out, exitCode, unhandled>>
       ELSE ScriptsFailed("ERROR: SQL directory not found")
  /\ UNCHANGED <<openConns, dbVars, response, adminCmds, executed,
                 reportedCounts, analyzerVars, envVars>>

\* psycopg2.connect to the target database, autocommit
RsConnect ==
  /\ prog = "loader" /\ pc = "rs_connect"
  /\ \E ok \in BOOLEAN :
       IF ok /\ dbExists
       THEN /\ openConns' = openConns \cup {"scripts"}
            /\ pc' = "rs_loop"
            /\ UNCHANGED <<phase, out, exitCode, unhandled>>
       ELSE /\ ScriptsFailed("ERROR: Database connection failed")
            /\ UNCHANGED openConns
  /\ UNCHANGED <<dbVars, response, adminCmds, executed, reportedCounts,
                 analyzerVars, envVars>>

\* what run_sql_script does for one script: "ok" is the committed execution,
\* the others are its three except branches, each returning False
ScriptOutcomes == {"ok", "missing", "sqlerr", "other"}

\* RunSqlScript with the result of run_sql_script ignored by the loop
RunSqlScript_NoStop ==
  /\ prog = "loader" /\ pc = "rs_loop"
  /\ LET i == Len(executed) + 1 IN
     \E outcome \in ScriptOutcomes :
       /\ executed' = Append(executed, <<i, outcome>>)
       /\ dbApplied' = IF outcome = "ok" THEN [dbApplied EXCEPT ![i] = @ + 1]
                                          ELSE dbApplied
       /\ out' = out \cup {IF outcome = "ok" THEN "executed successfully"
                                              ELSE "ERROR"}
       /\ UNCHANGED <<exitCode, unhandled>>
       /\ IF i = NumScripts
          THEN /\ openConns' = openConns \ {"scripts"}
               /\ phase' = [phase EXCEPT !.scripts = "ok"]
               /\ pc' = "vf_connect"
          ELSE UNCHANGED <<openConns, phase, pc>>
  /\ UNCHANGED <<dbExists, response, adminCmds, reportedCounts, analyzerVars,
                 envVars>>

\* One iteration of `for script_name in SQL_SCRIPTS`: run_sql_script on the
\* next script of the list; on False the connection is closed and
\* run_sql_scripts returns False; after the last script it is closed and
\* run_sql_scripts returns True.  The file is sent as one batch on an
\* autocommit connection: a batch that succeeds is committed at once, a batch
\* that fails leaves nothing behind.
RunSqlScript ==
  /\ prog = "loader" /\ pc = "rs_loop"
  /\ LET i == Len(executed) + 1 IN
     \E outcome \in ScriptOutcomes :
       /\ executed' = Append(executed, <<i, outcome>>)
       /\ IF outcome = "ok"
          THEN /\ dbApplied' = [dbApplied EXCEPT ![i] = @ + 1]
               /\ out' = out \cup {"executed successfully"}
               /\ UNCHANGED <<exitCode, unhandled>>
               /\ IF i = NumScripts
                  THEN /\ openConns' = openConns \ {"scripts"}
                       /\ phase' = [phase EXCEPT !.scripts = "ok"]
                       /\ pc' = "vf_connect"
                  ELSE UNCHANGED <<openConns, phase, pc>>
          ELSE /\ openConns' = openConns \ {"scripts"}
               /\ ScriptsFailed("Stopping due to error.")
               /\ UNCHANGED dbApplied
  /\ UNCHANGED <<dbExists, response, adminCmds, reportedCounts, analyzerVars,
                 envVars>>

\* --------------------------------------------- loader: verify_installation
\* the except psycopg2.Error branch of verify_installation and main's exit;
\* the connection is not closed on this path
VerifyFailed ==
  /\ phase' = [phase EXCEPT !.verify = "fail"]
  /\ Exit(1, {"ERROR: Verification failed",
              "Setup completed but verification failed."})
  /\ UNCHANGED <<dbVars, response, adminCmds, executed, reportedCounts,
                 analyzerVars, envVars>>

\* psycopg2.connect to the target database
VfConnect ==
  /\ prog = "loader" /\ pc = "vf_connect"
  /\ \E ok \in BOOLEAN :
       IF ok /\ dbExists
       THEN /\ openConns' = openConns \cup {"verify"}
            /\ pc' = "vf_queries"
            /\ UNCHANGED <<dbVars, response, loaderVars, out, exitCode,
                           unhandled, analyzerVars, envVars>>
       ELSE VerifyFailed /\ UNCHANGED openConns

\* the four catalog counts and the seven row counts; on success the
\* connection is closed, verify_installation returns True and main prints the
\* next steps and exits with 0
VfQueries ==
  /\ prog = "loader" /\ pc = "vf_queries"
  /\ \E ok \in BOOLEAN :
       IF ok
       THEN /\ reportedCounts' = <<dbApplied>>
            /\ openConns' = openConns \ {"verify"}
            /\ phase' = [phase EXCEPT !.verify = "ok"]
            /\ Exit(0, {"Setup Complete!"})
            /\ UNCHANGED <<dbVars, response, adminCmds, executed,
                           analyzerVars, envVars>>
       ELSE VerifyFailed /\ UNCHANGED openConns

Loader ==
  \/ LoaderStart \/ LoaderInterrupt
  \/ CdConnect \/ CdCheckExists \/ CdPrompt \/ CdTerminate \/ CdDrop
  \/ CdCreate \/ CdClose
  \/ RsDirCheck \/ RsConnect \/ RunSqlScript
  \/ VfConnect \/ VfQueries

\* ---------------------------------------------------------------- analyzer
\* KeyboardInterrupt in the analyzer: every blocking call of main is inside
\* its try, whose except KeyboardInterrupt prints and exits with 0 (the
\* connection is not closed on that path)
AnalyzerInterrupt ==
  /\ prog = "analyzer" /\ pc # "exited"
  /\ Exit(0, {"Analysis cancelled."})
  /\ UNCHANGED <<openConns, dbVars, response, loaderVars, analyzerVars, envVars>>

\* psycopg2.connect to the target database; autocommit is not set, so the
\* statements of the run share one transaction
AnalyzerConnect ==
  /\ prog = "analyzer" /\ pc = "a_connect"
  /\ \E ok \in BOOLEAN :
       IF ok /\ dbExists
       THEN /\ openConns' = openConns \cup {"analyzer"}
            /\ pc' = "a_analyze"
            /\ out' = out \cup {"Connected successfully"}
            /\ UNCHANGED <<exitCode, unhandled>>
       ELSE /\ Exit(1, {"ERROR: Database connection failed"})
            /\ UNCHANGED openConns
  /\ UNCHANGED <<dbVars, response, loaderVars, analyzerVars, envVars>>

\* The server's answer to a statement on the analyzer's connection: it is
\* refused when the statement itself is invalid, and also whenever an earlier
\* statement of the same transaction failed and nothing rolled it back.
ExecRaises(invalid) == invalid \/ txAborted

\* AnalyzeQuery with the loop left at the first failed analysis
AnalyzeQuery_BreakOnFailure ==
  /\ prog = "analyzer" /\ pc = "a_analyze"
  /\ LET i == Len(analyzed) + 1
         raises == ExecRaises(i \in rejected)
     IN /\ analyzed' = Append(analyzed, <<i, ~raises>>)
        /\ txAborted' = (txAborted \/ raises)
        /\ out' = out \cup (IF raises THEN {"ERROR: Query analysis failed"}
                                      ELSE {"Key Metrics:"})
        /\ pc' = IF i = NumQueries \/ raises THEN "a_index" ELSE "a_analyze"
  /\ UNCHANGED <<openConns, dbVars, response, loaderVars, exitCode, unhandled,
                 reports, benchVars, envVars>>

\* AnalyzeQuery without its except branch: the database error reaches main's
\* except psycopg2.Error, which reports a connection failure and exits with 1
AnalyzeQuery_Propagates ==
  /\ prog = "analyzer" /\ pc = "a_analyze"
  /\ LET i == Len(analyzed) + 1
         raises == ExecRaises(i \in rejected)
     IN IF raises
        THEN /\ Exit(1, {"ERROR: Database connection failed"})
             /\ txAborted' = TRUE
             /\ UNCHANGED analyzed
        ELSE /\ analyzed' = Append(analyzed, <<i, TRUE>>)
             /\ out' = out \cup {"Key Metrics:"}
             /\ pc' = IF i = NumQueries THEN "a_index" ELSE "a_analyze"
             /\ UNCHANGED <<txAborted, exitCode, unhandled>>
  /\ UNCHANGED <<openConns, dbVars, response, loaderVars, reports, benchVars,
                 envVars>>

\* One iteration of main's first loop: analyze_query(cursor, query_info).
\* Its return value is not looked at by main.
AnalyzeQuery ==
  /\ prog = "analyzer" /\ pc = "a_analyze"
  /\ LET i == Len(analyzed) + 1
         raises == ExecRaises(i \in rejected)
     IN /\ analyzed' = Append(analyzed, <<i, ~raises>>)
        /\ txAborted' = (txAborted \/ raises)
        /\ out' = out \cup (IF raises THEN {"ERROR: Query analysis failed"}
                                      ELSE {"Key Metrics:"})
        /\ pc' = IF i = NumQueries THEN "a_index" ELSE "a_analyze"
  /\ UNCHANGED <<openConns, dbVars, response, loaderVars, exitCode, unhandled,
                 reports, benchVars, envVars>>

\* get_index_usage_stats(cursor)
GetIndexUsageStats ==
  /\ prog = "analyzer" /\ pc = "a_index"
  /\ LET raises == ExecRaises(~statsValid.index)
     IN /\ reports' = [reports EXCEPT !.index = IF raises THEN "fail" ELSE "ok"]
        /\ txAborted' = (txAborted \/ raises)
        /\ out' = out \cup (IF raises THEN {"ERROR: Failed to retrieve index stats"}
                                      ELSE {"Index Usage Statistics"})
  /\ pc' = "a_sizes"
  /\ UNCHANGED <<openConns, dbVars, response, loaderVars, exitCode, unhandled,
                 analyzed, benchVars, envVars>>

\* get_table_sizes(cursor)
GetTableSizes ==
  /\ prog = "analyzer" /\ pc = "a_sizes"
  /\ LET raises == ExecRaises(~statsValid.sizes)
     IN /\ reports' = [reports EXCEPT !.sizes = IF raises THEN "fail" ELSE "ok"]
        /\ txAborted' = (txAborted \/ raises)
        /\ out' = out \cup (IF raises THEN {"ERROR: Failed to retrieve table sizes"}
                                      ELSE {"Database Size Information"})
  /\ pc' = "a_prompt"
  /\ UNCHANGED <<openConns, dbVars, response, loaderVars, exitCode, unhandled,
                 analyzed, benchVars, envVars>>

\* response = input("Run query benchmarks? (y/N): ").strip().lower()
BenchPrompt ==
  /\ prog = "analyzer" /\ pc = "a_prompt"
  /\ \E raw \in RawResponses :
       /\ response' = <<Normalize(raw), raw>>
       /\ pc' = IF Normalize(raw) = Yes THEN "a_bench" ELSE "a_close"
  /\ UNCHANGED <<openConns, dbVars, loaderVars, out, exitCode, unhandled,
                 analyzerVars, envVars>>

\* main's second loop: the next run_simple_benchmark call starts (times = []),
\* or the loop is over
BenchBegin ==
  /\ prog = "analyzer" /\ pc = "a_bench" /\ benchResult # "running"
  /\ IF benchQ = NumQueries
     THEN pc' = "a_close" /\ UNCHANGED benchVars
     ELSE /\ benchQ' = benchQ + 1
          /\ times' = <<>>
          /\ benchStats' = <<>>
          /\ benchResult' = "running"
          /\ pc' = pc
  /\ UNCHANGED <<openConns, dbVars, response, loaderVars, out, exitCode,
                 unhandled, txAborted, analyzed, reports, envVars>>

\* Statistics with the minimum taken to be the first sample
Statistics_FirstAsMin(ts) ==
  [sum |-> Sum(ts), n |-> Len(ts), min |-> ts[1], max |-> Max(ts)]

\* avg_time, min_time, max_time of run_simple_benchmark; the average is kept
\* as the exact quotient sum / n
Statistics(ts) == [sum |-> Sum(ts), n |-> Len(ts), min |-> Min(ts), max |-> Max(ts)]

\* One iteration of `for i in range(iterations)` in run_simple_benchmark:
\* execute, fetchall, append the duration; after the last iteration the
\* statistics are printed and True is returned; a psycopg2.Error ends the call
\* with False.  A statement can also fail for a reason of its own (timeout,
\* lost connection), drawn as `transient`.
BenchRun ==
  /\ prog = "analyzer" /\ pc = "a_bench" /\ benchResult = "running"
  /\ \E transient \in BOOLEAN, t \in 0..MaxTime :
       IF ExecRaises(benchQ \in rejected \/ transient)
       THEN /\ txAborted' = TRUE
            /\ benchResult' = "fail"
            /\ out' = out \cup {"ERROR: Benchmark failed"}
            /\ UNCHANGED <<times, benchStats>>
       ELSE /\ times' = Append(times, t)
            /\ IF Len(times') = Iterations
               THEN /\ benchStats' = <<Statistics(times')>>
                    /\ benchResult' = "ok"
                    /\ out' = out \cup {"Statistics:"}
               ELSE UNCHANGED <<benchStats, benchResult, out>>
            /\ UNCHANGED txAborted
  /\ UNCHANGED <<openConns, dbVars, response, loaderVars, exitCode, unhandled,
                 analyzed, reports, benchQ, pc, envVars>>

\* cursor.close(); conn.close(); the closing report; main returns
AnalyzerCleanup ==
  /\ prog = "analyzer" /\ pc = "a_close"
  /\ openConns' = openConns \ {"analyzer"}
  /\ Exit(0, {"Analysis Complete"})
  /\ UNCHANGED <<dbVars, response, loaderVars, analyzerVars, envVars>>

Analyzer ==
  \/ AnalyzerInterrupt \/ AnalyzerConnect
  \/ AnalyzeQuery \/ GetIndexUsageStats \/ GetTableSizes
  \/ BenchPrompt \/ BenchBegin \/ BenchRun \/ AnalyzerCleanup

Next == Loader \/ Analyzer

Spec == Init /\ [][Next]_vars

\* ------------------------------------------------------ shared vocabulary
\* number of successful executions of script s in this run
RECURSIVE OkCount(_, _)
OkCount(log, s) ==
  IF log = <<>> THEN 0
  ELSE (IF Head(log) = <<s, "ok">> THEN 1 ELSE 0) + OkCount(Tail(log), s)

\* number of scripts of this run that executed successfully
OkScripts == Cardinality({k \in 1..Len(executed) : executed[k][2] = "ok"})

Terminated == pc = "exited"

\* -------------------------------------------------------------------- C1
\* C1: in run_sql_scripts, once the execution of script i has failed (missing
\* file, SQL error or another exception caught by run_sql_script), no later
\* script of SQL_SCRIPTS is executed in that run and run_sql_scripts has
\* returned failure.
C1_ShortCircuit ==
  \A k \in 1..Len(executed) :
    executed[k][2] # "ok" =>
      /\ Len(executed) = k
      /\ phase.scripts = "fail"
      /\ phase.verify = "none"

\* a run in which the third script failed after two had been applied
C1_Witness ==
  /\ Len(executed) = 3
  /\ executed[3][2] = "sqlerr"
  /\ Terminated

\* -------------------------------------------------------------------- C2
\* C2 as stated: when the database existed and was provisioned and the answer
\* to "Drop and recreate?" is not 'y', no script is executed against it and
\* its objects, and the counts verification sees, are those before the run.
C2_Untouched ==
  (/\ prog = "loader"
   /\ db0.exists
   /\ db0.applied = PrefixApplied(NumScripts)
   /\ response # <<>>
   /\ response[1] # Yes)
  => /\ executed = <<>>
     /\ dbApplied = db0.applied
     /\ (reportedCounts # <<>> => reportedCounts[1] = db0.applied)

\* C2 amended: when the database existed and the answer (trimmed, lower-cased)
\* is not 'y', create_database issues nothing but the existence check, never
\* fails at the prompt and keeps the database; the scripts are then executed
\* against the existing database, which is modified by every script that
\* executes successfully, and verification reports the resulting counts.
C2_KeptThenScripted ==
  (/\ prog = "loader"
   /\ db0.exists
   /\ response # <<>>
   /\ response[1] # Yes)
  => /\ adminCmds = <<"select">>
     /\ dbExists
     /\ phase.create # "fail"
     /\ \A s \in 1..NumScripts :
          dbApplied[s] = db0.applied[s] + OkCount(executed, s)
     /\ (reportedCounts # <<>> => reportedCounts[1] = dbApplied)

\* the provisioned database was kept and a script has been applied on top of it
C2_Witness ==
  /\ prog = "loader"
  /\ db0.applied = PrefixApplied(NumScripts)
  /\ response # <<>>
  /\ response[1] # Yes
  /\ Len(executed) = 2
  /\ dbApplied[1] = 2

\* -------------------------------------------------------------------- C3
\* C3: once the analyzer is connected, analyze_query is called exactly once
\* for every entry of QUERIES_TO_ANALYZE in list order whatever the earlier
\* calls returned, and the index-usage and table-size reports are both
\* attempted afterwards.
C3_AllQueriesSubmitted ==
  prog = "analyzer" =>
    /\ Len(analyzed) <= NumQueries
    /\ \A k \in 1..Len(analyzed) : analyzed[k][1] = k
    /\ (pc = "a_analyze" => Len(analyzed) < NumQueries)
    /\ (pc \in {"a_index", "a_sizes", "a_prompt", "a_bench", "a_close"}
          => Len(analyzed) = NumQueries)
    /\ (pc \in {"a_sizes", "a_prompt", "a_bench", "a_close"}
          => reports.index # "none")
    /\ (pc \in {"a_prompt", "a_bench", "a_close"} => reports.sizes # "none")
    /\ ("Analysis Complete" \in out
          => /\ Len(analyzed) = NumQueries
             /\ reports.index # "none"
             /\ reports.sizes # "none")

\* the first analysis failed and all six queries and both reports were done
C3_Witness ==
  /\ Len(analyzed) = NumQueries
  /\ analyzed[1][2] = FALSE
  /\ reports.sizes # "none"
  /\ "Analysis Complete" \in out

\* -------------------------------------------------------------------- C4
\* C4: a database error in one query is local: every analysis and both
\* catalog reports have the outcome the statement has on its own, whatever
\* failed before it on the connection.
C4_LocalFailure ==
  prog = "analyzer" =>
    /\ \A k \in 1..Len(analyzed) : analyzed[k][2] = (analyzed[k][1] \notin rejected)
    /\ (reports.index # "none" => (reports.index = "ok") = statsValid.index)
    /\ (reports.sizes # "none" => (reports.sizes = "ok") = statsValid.sizes)

\* -------------------------------------------------------------------- C5
LoaderAllOk ==
  phase.create = "ok" /\ phase.scripts = "ok" /\ phase.verify = "ok"

LoaderAnyFailed ==
  phase.create = "fail" \/ phase.scripts = "fail" \/ phase.verify = "fail"

\* the operator pressed Ctrl+C during the run
Interrupted ==
  unhandled \/ "Setup cancelled." \in out \/ "Analysis cancelled." \in out

\* C5: the loader ends with 0 exactly when all three phases succeeded or the
\* operator cancelled, with 1 when a phase failed, and in no other way; the
\* analyzer ends with 1 when it cannot connect.
C5_ExitCodes ==
  Terminated =>
    /\ prog = "loader" =>
         /\ exitCode \in {0, 1}
         /\ (exitCode = 0) = (LoaderAllOk \/ Interrupted)
         /\ (LoaderAnyFailed => exitCode = 1)
    /\ (prog = "analyzer" /\ "ERROR: Database connection failed" \in out)
         => exitCode = 1

\* -------------------------------------------------------------------- C6
\* C6: an operator interrupt at any point of either program is caught and the
\* program exits with 0, never with an unhandled exception.
C6_InterruptCaught ==
  (Terminated /\ Interrupted) => (~unhandled /\ exitCode = 0)

C8_PartialIsReportedFailure ==
  prog = "loader" =>
    /\ \A k \in 1..Len(executed) :
         executed[k][2] = "ok" => dbApplied[executed[k][1]] >= 1
    /\ (Terminated /\ ((0 < OkScripts /\ OkScripts < NumScripts)
                        \/ phase.verify = "fail"))
         => /\ exitCode = 1
            /\ ("Setup failed at script execution step." \in out
                \/ "Setup completed but verification failed." \in out)

\* -------------------------------------------------------------------- C9
\* C9: scripts are executed only after create_database succeeded, the
\* executed scripts are a prefix of SQL_SCRIPTS in order with none repeated
\* and none after a failure, and verify_installation starts only after all
\* six scripts executed successfully.
C9_PhaseOrder ==
  prog = "loader" =>
    /\ (pc \in {"rs_dir", "rs_connect", "rs_loop"} \/ phase.scripts # "none"
        \/ executed # <<>>) => phase.create = "ok"
    /\ Len(executed) <= NumScripts
    /\ \A k \in 1..Len(executed) :
         /\ executed[k][1] = k
         /\ (k < Len(executed) => executed[k][2] = "ok")
    /\ (pc \in {"vf_connect", "vf_queries"} \/ phase.verify # "none"
        \/ reportedCounts # <<>>)
         => /\ phase.scripts = "ok"
            /\ OkScripts = NumScripts

\* verification has started after six successful scripts
C9_Witness ==
  /\ pc = "vf_queries"
  /\ OkScripts = NumScripts
  /\ phase.create = "ok"

\* ------------------------------------------------------------------- C10
\* C10: at most one connection opened by the program is open at any time.
C10_OneConnection == Cardinality(openConns) <= 1

\* the verification connection is open, after two earlier phases had theirs
C10_Witness ==
  /\ openConns = {"verify"}
  /\ phase.create = "ok"
  /\ phase.scripts = "ok"

\* ------------------------------------------------------------------- C11
\* C11: once a phase has returned, with success or on an error path that
\* printed a message, the connection that phase opened has been closed; the
\* same for the analyzer's main when it ends with its closing report or with
\* the connection-failure message.
C11_ConnectionsClosed ==
  /\ phase.create # "none" => "admin" \notin openConns
  /\ phase.scripts # "none" => "scripts" \notin openConns
  /\ phase.verify # "none" => "verify" \notin openConns
  /\ (prog = "analyzer"
      /\ ("Analysis Complete" \in out
          \/ "ERROR: Database connection failed" \in out))
       => "analyzer" \notin openConns

\* ------------------------------------------------------------------- C12
\* C12: whenever analyze_query is given a query the database rejects, it
\* prints the error and returns False, no exception leaves it, and the run
\* goes on with the next query or the reports; and the analyzer never ends
\* on a database error before every query has been submitted.
C12_RejectedQueryFailsLocally ==
  [][prog = "analyzer" /\ pc = "a_analyze" /\ ~Interrupted'
       => IF Len(analyzed) + 1 \in rejected
          THEN /\ analyzed' = Append(analyzed, <<Len(analyzed) + 1, FALSE>>)
               /\ "ERROR: Query analysis failed" \in out'
               /\ pc' \in {"a_analyze", "a_index"}
               /\ exitCode' = -1
               /\ ~unhandled'
          ELSE pc' # "exited"]_vars

\* the rejected first query returned False and the second has been analyzed
C12_Witness ==
  /\ 1 \in rejected
  /\ Len(analyzed) = 2
  /\ analyzed[1] = <<1, FALSE>>
  /\ pc = "a_analyze"
  /\ exitCode = -1

\* ------------------------------------------------------------------- C13
\* the typed line is a single y or Y with nothing but blanks around it
IsYesLine(raw) ==
  \E i \in 1..Len(raw) :
    /\ raw[i] \in {"y", "Y"}
    /\ \A j \in 1..Len(raw) : j # i => raw[j] = " "

IsPrefix(a, b) == Len(a) <= Len(b) /\ a = SubSeq(b, 1, Len(a))

Issued(cmd) == \E k \in 1..Len(adminCmds) : adminCmds[k] = cmd

\* C13: create_database issues DROP DATABASE only when the database was found
\* to exist and the trimmed, lower-cased answer is exactly 'y', and then in
\* the order terminate, drop, create; an absent database is created without
\* prompt, terminate or drop; an existing one is not created again unless it
\* was dropped; and when create_database has returned success the database
\* exists.
C13_DropOnlyOnYes ==
  prog = "loader" =>
    /\ (Issued("terminate") \/ Issued("drop"))
         => /\ db0.exists
            /\ response # <<>>
            /\ response[1] = Yes
            /\ IsYesLine(response[2])
            /\ IsPrefix(adminCmds, <<"select", "terminate", "drop", "create">>)
    /\ ~db0.exists
         => /\ response = <<>>
            /\ IsPrefix(adminCmds, <<"select", "create">>)
    /\ (db0.exists /\ ~Issued("drop")) => ~Issued("create")
    /\ phase.create = "ok" => dbExists

\* a line with a blank and a capital Y led to terminate, drop and create, and
\* create_database returned success
C13_Witness ==
  /\ prog = "loader"
  /\ response # <<>>
  /\ response[2] = <<" ", "Y">>
  /\ adminCmds = <<"select", "terminate", "drop", "create">>
  /\ phase.create = "ok"
  /\ dbExists

====
